---- MODULE Spec2Model ----
(***************************************************************************)
(* concurrent-image-processor: the batch orchestrator (ProcessImages), the *)
(* image worker pool (WorkerPool), the per-image row fan-out               *)
(* (ProcessSingleImage), the pixel filters (filters.go) and the start-up   *)
(* of main (config.Load and the flag overrides).                           *)
(*                                                                         *)
(* Go channel semantics used throughout:                                   *)
(*   - a send on a buffered channel can proceed when the buffer has room;  *)
(*     a send on a closed channel panics, also inside a select, where it   *)
(*     counts as a case that can proceed;                                  *)
(*   - a receive can proceed when the buffer holds a value (also after the *)
(*     close) or when the channel is closed (zero value, ok = false);      *)
(*   - a select picks any one of the cases that can proceed;               *)
(*   - closing a closed channel panics; an unrecovered panic in any        *)
(*     goroutine ends the whole process.                                   *)
(***************************************************************************)
EXTENDS Integers, Sequences, FiniteSets, TLC

\* ------------------------------------------------------------------ bounds
MaxPaths == 4
MaxWorkers == 2
MaxBuffer == 1
MaxHeight == 2
MaxWidth == 1
MaxRadius == 1
MaxRowWorkers == 1
MaxPixels == 2
MaxFound == 2
MaxSubmits == 1
MaxRowJobs == 2
MaxOutputSize == 2

\* ------------------------------------------------------------------ values
\* models.FilterType constants, the keys of FilterRegistry
FilterRegistry == {"grayscale", "blur", "brightness", "contrast"}

\* the filter identifiers a run can carry: main overrides cfg.Filter with the
\* -filter flag after config.Load has validated it, so any string gets through
FilterInputs == FilterRegistry \cup {"sepia"}

\* what the filesystem and the decoder answer for one input path
FileStates == {"missing", "oversized", "corrupt", "ok"}

\* cancelAt while the context is not cancelled
NotCancelled == [pos |-> "never", joined |-> 0]

\* the zero value received from a closed, drained result channel
ZeroResult == [id |-> -1, failed |-> FALSE]

\* ------------------------------------------------------------- filters.go
\* Pixel buffers are sequences of uint8 values, four per pixel (R, G, B, A).
\* A float64 factor is the pair <<numerator, denominator>> of a dyadic
\* rational: for these the float64 product with a channel value is exact,
\* so the integer arithmetic below is what the Go code computes.
Factors == {<<1, 2>>, <<1, 1>>, <<3, 2>>}

\* math.Max(0, math.Min(255, value))
clamp(value) == IF value < 0 THEN 0 ELSE IF value > 255 THEN 255 ELSE value

\* a faulty variant of BrightnessChannel: the channel is offset in uint8
\* arithmetic first, as ApplyContrast does
BrightnessChannel_Offset(v, factor) ==
    clamp((((v - 128) % 256) * factor[1]) \div factor[2] + 128)

\* uint8(clamp(float64(src[i]) * factor))
BrightnessChannel(v, factor) == clamp((v * factor[1]) \div factor[2])

\* uint8(clamp((float64(src[i]-128) * factor) + 128)): src[i]-128 is a uint8
\* subtraction and wraps around below 128
ContrastChannel(v, factor) ==
    clamp((((v - 128) % 256) * factor[1]) \div factor[2] + 128)

\* The gray values v for which 0.299*v + 0.587*v + 0.114*v, evaluated in
\* float64, falls just below v, so that uint8() truncates it to v - 1. The
\* Go compiler may fuse a multiplication with the following addition; the
\* three tables are the three ways the expression can be compiled.
GrayBelow(build) ==
    IF build = "plain" THEN
        {1, 2, 4, 8, 11, 13, 16, 22, 26, 27, 32, 39, 44, 51, 52, 54, 57, 59,
         61, 64, 78, 81, 88, 91, 95, 101, 102, 104, 108, 114, 115, 118, 122,
         127, 128, 143, 149, 156, 157, 162, 169, 175, 176, 182, 183, 190, 195,
         202, 203, 204, 208, 209, 216, 223, 225, 228, 230, 235, 236, 239, 241,
         244, 249, 251, 254}
    ELSE IF build = "fma_a" THEN
        {1, 2, 4, 8, 11, 13, 16, 21, 22, 26, 31, 32, 39, 42, 44, 47, 52, 57,
         59, 62, 64, 78, 81, 84, 88, 91, 94, 95, 101, 104, 111, 114, 117, 118,
         124, 127, 128, 135, 149, 155, 156, 162, 163, 168, 169, 175, 176, 182,
         188, 189, 190, 195, 201, 202, 203, 208, 215, 221, 222, 223, 228, 234,
         235, 236, 241, 247, 248, 249, 254, 255}
    ELSE
        {1, 2, 4, 8, 13, 16, 21, 26, 27, 31, 32, 39, 42, 47, 49, 52, 54, 57,
         59, 61, 62, 63, 64, 78, 81, 84, 85, 91, 94, 95, 98, 104, 108, 111,
         114, 118, 122, 124, 126, 127, 128, 135, 139, 149, 155, 156, 162, 168,
         169, 170, 175, 182, 183, 188, 190, 195, 196, 201, 203, 208, 209, 216,
         222, 223, 228, 231, 235, 236, 239, 241, 244, 248, 249, 252, 254}

\* how the build evaluates the float64 expressions
Builds == {"plain", "fma_a", "fma_b"}

\* uint8(0.299*r + 0.587*g + 0.114*b). When the exact sum is not an integer
\* it is at least 0.001 away from one and the float64 rounding cannot cross
\* it. When it is an integer the rounding decides: the tables cover r = g = b,
\* and the pixels the specifications feed in have no other integer sum.
Gray(r, g, b, build) ==
    LET e == 299 * r + 587 * g + 114 * b
    IN  IF r = g /\ g = b /\ r \in GrayBelow(build)
        THEN e \div 1000 - 1
        ELSE e \div 1000

\* a faulty variant of Alpha: the output pixel is made opaque
Alpha_Opaque(src, i) == 255

\* a := src[i+3]; dst[i+3] = a, for the alpha position i of a pixel
Alpha(src, i) == src[i]

\* the index of the first channel of the pixel that holds position i (from 1)
PixelStart(i) == i - ((i - 1) % 4)

ApplyGrayScale(src, width, params, build) ==
    IF Len(src) % 4 # 0 THEN src
    ELSE [i \in 1 .. Len(src) |->
            IF i % 4 = 0 THEN Alpha(src, i)
            ELSE Gray(src[PixelStart(i)], src[PixelStart(i) + 1],
                      src[PixelStart(i) + 2], build)]

ApplyBrightness(src, width, params) ==
    IF Len(src) % 4 # 0 THEN src
    ELSE [i \in 1 .. Len(src) |->
            IF i % 4 = 0 THEN Alpha(src, i)
            ELSE BrightnessChannel(src[i], params.Brightness)]

ApplyContrast(src, width, params) ==
    IF Len(src) % 4 # 0 THEN src
    ELSE [i \in 1 .. Len(src) |->
            IF i % 4 = 0 THEN Alpha(src, i)
            ELSE ContrastChannel(src[i], params.Contrast)]

\* sum of the values of a finite set of positions of a buffer
RECURSIVE SumAt(_, _)
SumAt(src, idxs) ==
    IF idxs = {} THEN 0
    ELSE LET i == CHOOSE j \in idxs : TRUE
         IN  src[i] + SumAt(src, idxs \ {i})

\* the box of ApplyBlur around pixel (x, y): the positions of channel c
\* (0..3) of the pixels within the radius that lie inside width x height
BlurBox(x, y, c, width, height, radius) ==
    {(ny * width + nx) * 4 + c + 1 :
        nx \in {n \in x - radius .. x + radius : n >= 0 /\ n < width},
        ny \in {n \in y - radius .. y + radius : n >= 0 /\ n < height}}

\* a faulty variant of ApplyBlurPanics: the height is computed before the
\* length of the buffer is checked
ApplyBlurPanics_BeforeLengthCheck(src, width) == width * 4 = 0

\* ApplyBlur panics with an integer division by zero: the buffer passed the
\* length check and height := len(src) / (width * 4) has a zero divisor
ApplyBlurPanics(src, width) == Len(src) % 4 = 0 /\ width * 4 = 0

\* ApplyBlur where it does not panic: height is len(src) / (width*4), not
\* positive for a negative width; dst is zeroed by make, so positions past
\* height*width pixels stay 0; the sums of uint8 values and their quotient
\* by count are exact in float64 up to the truncation of uint8()
ApplyBlur(src, width, params) ==
    IF Len(src) % 4 # 0 THEN src
    ELSE IF width <= 0 THEN src
    ELSE LET height == Len(src) \div (width * 4)
             radius == params.BlurRadius
         IN  IF height <= 0 THEN src
             ELSE IF radius <= 0 THEN src
             ELSE [i \in 1 .. Len(src) |->
                     LET k == (i - 1) \div 4
                         c == (i - 1) % 4
                         box == BlurBox(k % width, k \div width, c,
                                        width, height, radius)
                     IN  IF k >= height * width THEN 0
                         ELSE SumAt(src, box) \div Cardinality(box)]

\* filter(pixels, width, job.Params) for a registered filter
ApplyFilter(name, src, width, params, build) ==
    IF name = "grayscale" THEN ApplyGrayScale(src, width, params, build)
    ELSE IF name = "brightness" THEN ApplyBrightness(src, width, params)
    ELSE IF name = "contrast" THEN ApplyContrast(src, width, params)
    ELSE ApplyBlur(src, width, params)

VARIABLES
    \* ---- configuration and inputs
    expectedResults,   \* len(imagePaths)
    workerCount,       \* cfg.Workers
    bufferSize,        \* cfg.BufferSize
    filter,            \* cfg.Filter
    params,            \* cfg.Brightness, cfg.Contrast, cfg.BlurRadius: job.Params
    build,             \* how the binary evaluates the float64 expressions
    rowWorkers,        \* cfg.RowWorkers
    \* ---- main
    mpc,               \* position of main
    flags,             \* the command-line flags -filter, -workers, -row-workers
    \* ---- context
    ctxDone,           \* ctx.Done() is closed
    \* ---- Processor.ProcessImages (the calling goroutine)
    pc,                \* its position
    nextJob,           \* loop index i of the submission loop
    submitted,         \* ids of the jobs SubmitJob put on jobQueue
    rejected,          \* ids of the jobs SubmitJob dropped
    results,           \* the local slice results
    err,               \* the returned error: "none" until decided, "nil", "canceled"
    calls,             \* number of ProcessImages invocations so far
    \* ---- WorkerPool
    jobQueue, jobQueueClosed,
    resultQueue, resultQueueClosed,
    quitClosed,
    wpc,               \* imageWorker goroutines: position
    wjob,              \* the job a worker holds
    wres,              \* the result a worker holds
    panicked,          \* "none", or the site of the panic that ended the process
    \* ---- Processor.ProcessSingleImage (one call, row fan-out)
    ipc,               \* position of the calling worker inside ProcessSingleImage
    file,              \* what os.Stat / loadImage find at job.InputPath
    height,            \* bounds.Dy() of the decoded image
    width,             \* bounds.Dx() of the decoded image
    source,            \* the pixel rows of the decoded image: row -> buffer
    rgba,              \* the image buffer rgba: row -> buffer
    rowPixels,         \* the non-nil entries of processedRows: row -> buffer
    rowpc,             \* the row goroutines
    rowResults, rowResultsClosed,
    closerpc,          \* the goroutine doing wg.Wait(); close(rowResults)
    processedRows,     \* which entries of processedRows are non-nil
    written,           \* rows written back with SetRowPixels
    decoded,           \* loadImage was called
    saveCalled,        \* saveImage was called (os.Create made or truncated the file)
    saveOK,            \* saveImage returned nil
    resultErr,         \* result.Error of the returned ProcessingResult
    reported,          \* row index -> what its task sent: "none", "ok", "err"
    cancelAt,          \* when ctx was cancelled: the position of ProcessSingleImage
                       \* and the number of row results it had joined
    \* ---- one call of a filter function
    buf,               \* the argument src
    bufWidth,          \* the argument width
    out,               \* the returned buffer
    applied,           \* the filter that was called, "none" before the call
    outputSize,        \* image level: bytes of the file saveImage wrote
    processedSize,     \* image level: result.Metadata.ProcessedSize
    spc,               \* row-worker pool: the position of its one client
    rowJobQueue,       \* row-worker pool: the buffered channel wp.rowJobQueue
    rowJobQueueClosed, \* row-worker pool: close(wp.rowJobQueue) has run
    wpRowResults,      \* row-worker pool: the buffered channel wp.rowResults
    rwpc,              \* row-worker pool: each rowWorker's position
    rwjob,             \* row-worker pool: the row job a rowWorker holds
    nextRow,           \* row-worker pool: row jobs the client has submitted
    closeCalls,        \* row-worker pool: close calls made on each channel
    imagePaths,        \* job building: the argument imagePaths of ProcessImages
    outputDir,         \* job building: p.config.OutputDir
    jobs               \* job building: the ImageJobs built so far, in order

poolVars == <<pc, nextJob, submitted, rejected, results, err, calls,
              jobQueue, jobQueueClosed, resultQueue, resultQueueClosed,
              quitClosed, wpc, wjob, wres, panicked>>
cfgVars == <<expectedResults, workerCount, bufferSize, filter, params, build,
             rowWorkers>>
mainVars == <<mpc, flags>>
imgVars == <<ipc, file, height, width, source, rgba, rowPixels, rowpc,
             rowResults, rowResultsClosed, closerpc, processedRows, written,
             decoded, saveCalled, saveOK, resultErr, reported, cancelAt>>
filterVars == <<buf, bufWidth, out, applied>>
metaVars == <<outputSize, processedSize>>
rowPoolVars == <<spc, rowJobQueue, rowJobQueueClosed, wpRowResults, rwpc,
                 rwjob, nextRow, closeCalls>>
pathVars == <<imagePaths, outputDir, jobs>>
vars == <<cfgVars, mainVars, ctxDone, poolVars, imgVars, filterVars, metaVars,
          rowPoolVars, pathVars>>

\* a faulty variant of Workers: Start's loop runs once more than cfg.Workers
Workers_OneMore == 0 .. workerCount

\* the imageWorker goroutines: for i := 0; i < wp.workerCount; i++
Workers == 0 .. workerCount - 1
Rows == 0 .. height - 1

\* a faulty variant of ExceedsMaxFileSize: the size check is skipped
ExceedsMaxFileSize_Skipped(f) == FALSE

\* fileInfo.Size() > p.config.MaxFileSize, for a file os.Stat has found
ExceedsMaxFileSize(f) == f = "oversized"

\* ------------------------------------------------- ProcessSingleImage summary
\* The error ProcessSingleImage returns, as a function of what it finds:
\* the first failing step decides. Every row task fails when the filter is
\* not registered; with no rows, no task runs and nothing fails.
SingleImageError(f, h, flt, saved) ==
    IF f = "missing" THEN "stat"
    ELSE IF ExceedsMaxFileSize(f) THEN "size"
    ELSE IF f = "corrupt" THEN "load"
    ELSE IF flt \notin FilterRegistry /\ h > 0 THEN "row"
    ELSE IF ~saved THEN "save"
    ELSE "nil"

\* ------------------------------------------------------------ idle values
PoolIdle ==
    /\ pc = "idle" /\ nextJob = 0 /\ submitted = {} /\ rejected = {}
    /\ results = <<>> /\ err = "none" /\ calls = 0
    /\ jobQueue = <<>> /\ jobQueueClosed = FALSE
    /\ resultQueue = <<>> /\ resultQueueClosed = FALSE
    /\ quitClosed = FALSE
    /\ wpc = [w \in Workers |-> "unstarted"]
    /\ wjob = [w \in Workers |-> -1]
    /\ wres = [w \in Workers |-> ZeroResult]
    /\ panicked = "none"

ImageIdle ==
    /\ ipc = "idle" /\ file = "ok" /\ height = 0 /\ width = 0
    /\ source = <<>> /\ rgba = <<>> /\ rowPixels = <<>>
    /\ rowpc = <<>> /\ rowResults = <<>> /\ rowResultsClosed = FALSE
    /\ closerpc = "none" /\ processedRows = {} /\ written = {}
    /\ decoded = FALSE /\ saveCalled = FALSE /\ saveOK = FALSE
    /\ resultErr = "none" /\ reported = <<>> /\ cancelAt = NotCancelled

\* a numeric flag left at its default value: main does not override the field
FlagDefault == [changed |-> FALSE, value |-> 0]

\* -filter left at its default "grayscale": main does not override cfg.Filter
FilterFlagDefault == [changed |-> FALSE, value |-> "grayscale"]

\* no flag given; main is at its call of ProcessImages
MainAtRun ==
    /\ mpc = "run"
    /\ flags = [filter |-> FilterFlagDefault, workers |-> FlagDefault,
                rowWorkers |-> FlagDefault]

FilterIdle == buf = <<>> /\ bufWidth = 0 /\ out = <<>> /\ applied = "none"

\* result.Metadata is the zero value, nothing is saved
MetaIdle == outputSize = 0 /\ processedSize = 0

\* no job has been built
PathIdle == imagePaths = <<>> /\ outputDir = <<>> /\ jobs = <<>>

\* the channels of the pool that owns a row-job queue
PoolChannels == {"quit", "jobQueue", "rowJobQueue", "resultQueue"}

\* no pool with a row-job queue is in use
RowPoolIdle ==
    /\ spc = "none"
    /\ rowJobQueue = <<>> /\ rowJobQueueClosed = FALSE
    /\ wpRowResults = <<>>
    /\ rwpc = <<>> /\ rwjob = <<>> /\ nextRow = 0
    /\ closeCalls = [c \in PoolChannels |-> 0]

\* the filter parameters a configuration can carry
ParamSets == [Brightness : Factors, Contrast : Factors, BlurRadius : 0 .. MaxRadius]

\* ------------------------------------------------------------------- Init
\* processor.New: NewWorkerPool made the channels, nothing is started;
\* main calls ProcessImages only with at least one path. The batch runs take
\* the default filter: the pool sees the filter only through the error of a
\* job's result, and a job can fail or succeed under any filter.
Init ==
    /\ expectedResults \in 1 .. MaxPaths
    /\ workerCount \in 1 .. MaxWorkers
    /\ bufferSize \in 1 .. MaxBuffer
    /\ filter = "grayscale"
    /\ params = [Brightness |-> <<1, 1>>, Contrast |-> <<1, 1>>, BlurRadius |-> 0]
    /\ build = "plain"
    /\ rowWorkers = 1
    /\ MainAtRun
    /\ ctxDone = FALSE
    /\ PoolIdle
    /\ MetaIdle
    /\ PathIdle
    /\ RowPoolIdle
    /\ ImageIdle
    /\ FilterIdle

\* ------------------------------------------------------------ the context
\* cancel() of main's context: the signal handler goroutine, at any moment
Cancel ==
    /\ ~ctxDone
    /\ panicked = "none"
    /\ ctxDone' = TRUE
    /\ cancelAt' = [pos |-> ipc, joined |-> Cardinality(processedRows)]
    /\ UNCHANGED <<pathVars, metaVars, rowPoolVars, cfgVars, mainVars, filterVars,
                   poolVars, ipc, file, height, width, source, rgba,
                   rowPixels, rowpc, rowResults,
                   rowResultsClosed, closerpc, processedRows, written, decoded,
                   saveCalled, saveOK, resultErr, reported>>

\* --------------------------------------------------------- ProcessImages
Running == panicked = "none"

\* p.workerPool.Start(ctx): wg.Add(1) and go imageWorker for each worker;
\* defer Stop; the submission loop is next
Start ==
    /\ Running
    /\ mpc = "run"
    /\ pc = "idle"
    /\ pc' = "submit"
    /\ calls' = calls + 1
    /\ wpc' = [w \in Workers |-> "select"]
    /\ nextJob' = 0
    /\ UNCHANGED <<pathVars, metaVars, rowPoolVars, cfgVars, mainVars, filterVars,
                   ctxDone, imgVars, submitted, rejected, results, err,
                   jobQueue, jobQueueClosed, resultQueue, resultQueueClosed,
                   quitClosed, wjob, wres, panicked>>

\* a faulty variant of HasRoom: the send never waits for a free slot
HasRoom_Always(q) == TRUE

\* a send on a channel made with capacity bufferSize can proceed
HasRoom(q) == Len(q) < bufferSize

\* after the i-th SubmitJob: the next iteration, or the collection loop
AfterSubmit == IF nextJob + 1 < expectedResults THEN "submit" ELSE "collect"

\* WorkerPool.SubmitJob(job_i): select { case jobQueue <- job: case <-quit: }
SubmitJob ==
    /\ Running
    /\ pc = "submit"
    /\ \/ \* the send proceeds: room in the buffer
          /\ ~jobQueueClosed
          /\ HasRoom(jobQueue)
          /\ jobQueue' = Append(jobQueue, nextJob)
          /\ submitted' = submitted \cup {nextJob}
          /\ nextJob' = nextJob + 1
          /\ pc' = AfterSubmit
          /\ UNCHANGED <<rejected, panicked>>
       \/ \* the send proceeds on a closed channel: panic
          /\ jobQueueClosed
          /\ panicked' = "SubmitJob: send on closed channel"
          /\ UNCHANGED <<jobQueue, submitted, rejected, nextJob, pc>>
       \/ \* <-quit: the job is dropped, "job rejected" is logged
          /\ quitClosed
          /\ rejected' = rejected \cup {nextJob}
          /\ nextJob' = nextJob + 1
          /\ pc' = AfterSubmit
          /\ UNCHANGED <<jobQueue, submitted, panicked>>
    /\ UNCHANGED <<pathVars, metaVars, rowPoolVars, cfgVars, mainVars, filterVars,
                   ctxDone, imgVars, results, err, calls, jobQueueClosed,
                   resultQueue, resultQueueClosed, quitClosed, wpc, wjob, wres>>

\* a faulty variant of ReceiveResult: the received result stays in the buffer
ReceiveResult_NoPop(q) == q

\* the buffer of resultQueue after the collector's receive
ReceiveResult(q) == Tail(q)

\* a faulty variant of AfterCollect: the loop ends one result early
AfterCollect_OffByOne(n) == IF n + 1 < expectedResults THEN "collect" ELSE "stop"

\* after a result is appended: the loop condition resultsReceived < expectedResults
AfterCollect(n) == IF n < expectedResults THEN "collect" ELSE "stop"

\* one iteration of the collection loop:
\* select { case <-ctx.Done(): return results, ctx.Err()
\*          case result := <-Results(): append }
CollectResult ==
    /\ Running
    /\ pc = "collect"
    /\ \/ /\ ctxDone
          /\ err' = "canceled"
          /\ pc' = "stop"
          /\ UNCHANGED <<results, resultQueue>>
       \/ /\ resultQueue # <<>>
          /\ results' = Append(results, Head(resultQueue))
          /\ resultQueue' = ReceiveResult(resultQueue)
          /\ pc' = AfterCollect(Len(results) + 1)
          /\ err' = IF AfterCollect(Len(results) + 1) = "collect" THEN err ELSE "nil"
       \/ /\ resultQueue = <<>>
          /\ resultQueueClosed
          /\ results' = Append(results, ZeroResult)
          /\ pc' = AfterCollect(Len(results) + 1)
          /\ err' = IF AfterCollect(Len(results) + 1) = "collect" THEN err ELSE "nil"
          /\ UNCHANGED resultQueue
    /\ UNCHANGED <<pathVars, metaVars, rowPoolVars, cfgVars, mainVars, filterVars,
                   ctxDone, imgVars, nextJob, submitted, rejected, calls,
                   jobQueue, jobQueueClosed, resultQueueClosed, quitClosed,
                   wpc, wjob, wres, panicked>>

\* ------------------------------------------------------- WorkerPool.Stop
\* the deferred Stop, statement by statement: workers run in between

\* close(wp.quit)
StopCloseQuit ==
    /\ Running
    /\ pc = "stop"
    /\ IF quitClosed
       THEN /\ panicked' = "Stop: close of closed channel"
            /\ UNCHANGED <<quitClosed, pc>>
       ELSE /\ quitClosed' = TRUE
            /\ pc' = "stop_jobs"
            /\ UNCHANGED panicked
    /\ UNCHANGED <<pathVars, metaVars, rowPoolVars, cfgVars, mainVars, filterVars,
                   ctxDone, imgVars, nextJob, submitted, rejected, results,
                   err, calls, jobQueue, jobQueueClosed, resultQueue,
                   resultQueueClosed, wpc, wjob, wres>>

\* close(wp.jobQueue)
StopCloseJobQueue ==
    /\ Running
    /\ pc = "stop_jobs"
    /\ IF jobQueueClosed
       THEN /\ panicked' = "Stop: close of closed channel"
            /\ UNCHANGED <<jobQueueClosed, pc>>
       ELSE /\ jobQueueClosed' = TRUE
            /\ pc' = "stop_wait"
            /\ UNCHANGED panicked
    /\ UNCHANGED <<pathVars, metaVars, rowPoolVars, cfgVars, mainVars, filterVars,
                   ctxDone, imgVars, nextJob, submitted, rejected, results,
                   err, calls, jobQueue, resultQueue, resultQueueClosed,
                   quitClosed, wpc, wjob, wres>>

\* a faulty variant of WaitGroupZero: Stop does not wait for the workers
WaitGroupZero_NoWait == TRUE

\* wp.wg is zero: every started imageWorker has run its deferred wg.Done()
WaitGroupZero == \A w \in Workers : wpc[w] = "stopped"

\* wp.wg.Wait() returns
StopWait ==
    /\ Running
    /\ pc = "stop_wait"
    /\ WaitGroupZero
    /\ pc' = "stop_results"
    /\ UNCHANGED <<pathVars, metaVars, rowPoolVars, cfgVars, mainVars, filterVars,
                   ctxDone, imgVars, nextJob, submitted, rejected, results,
                   err, calls, jobQueue, jobQueueClosed, resultQueue,
                   resultQueueClosed, quitClosed, wpc, wjob, wres, panicked>>

\* close(wp.resultQueue), and ProcessImages returns to its caller
StopCloseResultQueue ==
    /\ Running
    /\ pc = "stop_results"
    /\ IF resultQueueClosed
       THEN /\ panicked' = "Stop: close of closed channel"
            /\ UNCHANGED <<resultQueueClosed, pc>>
       ELSE /\ resultQueueClosed' = TRUE
            /\ pc' = "returned"
            /\ UNCHANGED panicked
    /\ UNCHANGED <<pathVars, metaVars, rowPoolVars, cfgVars, mainVars, filterVars,
                   ctxDone, imgVars, nextJob, submitted, rejected, results,
                   err, calls, jobQueue, jobQueueClosed, resultQueue,
                   quitClosed, wpc, wjob, wres>>

\* ------------------------------------------------ WorkerPool.imageWorker

\* a faulty variant of Dequeue: the received job stays in the buffer
Dequeue_NoPop(q) == q

\* the buffer of jobQueue after a receive
Dequeue(q) == Tail(q)

\* the outer select of the worker loop:
\* select { case <-ctx.Done(): return  case <-wp.quit: return
\*          case job, ok := <-wp.jobQueue: if !ok { return } ... }
WorkerSelect(w) ==
    /\ Running
    /\ wpc[w] = "select"
    /\ \/ /\ ctxDone
          /\ wpc' = [wpc EXCEPT ![w] = "stopped"]
          /\ UNCHANGED <<jobQueue, wjob>>
       \/ /\ quitClosed
          /\ wpc' = [wpc EXCEPT ![w] = "stopped"]
          /\ UNCHANGED <<jobQueue, wjob>>
       \/ /\ jobQueue # <<>>
          /\ wjob' = [wjob EXCEPT ![w] = Head(jobQueue)]
          /\ jobQueue' = Dequeue(jobQueue)
          /\ wpc' = [wpc EXCEPT ![w] = "process"]
       \/ /\ jobQueue = <<>>
          /\ jobQueueClosed
          /\ wpc' = [wpc EXCEPT ![w] = "stopped"]
          /\ UNCHANGED <<jobQueue, wjob>>
    /\ UNCHANGED <<pathVars, metaVars, rowPoolVars, cfgVars, mainVars, filterVars,
                   ctxDone, imgVars, pc, nextJob, submitted, rejected,
                   results, err, calls, jobQueueClosed, resultQueue,
                   resultQueueClosed, quitClosed, wres, panicked>>

\* result := wp.processor.ProcessSingleImage(ctx, job): the call touches no
\* pool state and does not read ctx; its outcome depends on what it finds at
\* the job's path
WorkerProcess(w) ==
    /\ Running
    /\ wpc[w] = "process"
    /\ \E failed \in {SingleImageError(f, h, filter, saved) # "nil" :
                         f \in FileStates, h \in 0 .. MaxHeight, saved \in BOOLEAN} :
          wres' = [wres EXCEPT ![w] = [id |-> wjob[w], failed |-> failed]]
    /\ wjob' = [wjob EXCEPT ![w] = -1]
    /\ wpc' = [wpc EXCEPT ![w] = "send"]
    /\ UNCHANGED <<pathVars, metaVars, rowPoolVars, cfgVars, mainVars, filterVars,
                   ctxDone, imgVars, pc, nextJob, submitted, rejected,
                   results, err, calls, jobQueue, jobQueueClosed, resultQueue,
                   resultQueueClosed, quitClosed, panicked>>

\* a faulty variant of SendAbandoned: the inner select has only the send
SendAbandoned_Never == FALSE

\* the cases <-ctx.Done() and <-wp.quit of the inner select can proceed
SendAbandoned == ctxDone \/ quitClosed

\* the inner select:
\* select { case wp.resultQueue <- result:  case <-ctx.Done(): return
\*          case <-wp.quit: return }
WorkerSend(w) ==
    /\ Running
    /\ wpc[w] = "send"
    /\ \/ /\ ~resultQueueClosed
          /\ Len(resultQueue) < bufferSize
          /\ resultQueue' = Append(resultQueue, wres[w])
          /\ wres' = [wres EXCEPT ![w] = ZeroResult]
          /\ wpc' = [wpc EXCEPT ![w] = "select"]
          /\ UNCHANGED panicked
       \/ /\ resultQueueClosed
          /\ panicked' = "imageWorker: send on closed channel"
          /\ UNCHANGED <<resultQueue, wpc, wres>>
       \/ /\ SendAbandoned
          /\ wpc' = [wpc EXCEPT ![w] = "stopped"]
          /\ wres' = [wres EXCEPT ![w] = ZeroResult]
          /\ UNCHANGED <<resultQueue, panicked>>
    /\ UNCHANGED <<pathVars, metaVars, rowPoolVars, cfgVars, mainVars, filterVars,
                   ctxDone, imgVars, pc, nextJob, submitted, rejected,
                   results, err, calls, jobQueue, jobQueueClosed,
                   resultQueueClosed, quitClosed, wjob>>

\* ------------------------------------------------------- the batch run
\* the steps of the program itself (everything but the cancellation)
BatchStep ==
    \/ Start
    \/ SubmitJob
    \/ CollectResult
    \/ StopCloseQuit
    \/ StopCloseJobQueue
    \/ StopWait
    \/ StopCloseResultQueue
    \/ \E w \in Workers : WorkerSelect(w)
    \/ \E w \in Workers : WorkerProcess(w)
    \/ \E w \in Workers : WorkerSend(w)

Next ==
    \/ Cancel
    \/ Start
    \/ SubmitJob
    \/ CollectResult
    \/ StopCloseQuit
    \/ StopCloseJobQueue
    \/ StopWait
    \/ StopCloseResultQueue
    \/ \E w \in Workers : WorkerSelect(w)
    \/ \E w \in Workers : WorkerProcess(w)
    \/ \E w \in Workers : WorkerSend(w)

\* one ProcessImages call on a fresh Processor, as main makes it
Spec == Init /\ [][Next]_vars

\* the steps of the goroutine of image worker w
WorkerStep(w) ==
    /\ w \in Workers
    /\ \/ WorkerSelect(w)
       \/ WorkerProcess(w)
       \/ WorkerSend(w)

\* a fresh Processor and a batch of up to one job more than there are workers
InitFair ==
    /\ expectedResults \in 1 .. MaxWorkers + 1
    /\ workerCount \in 1 .. MaxWorkers
    /\ bufferSize \in 1 .. MaxBuffer
    /\ filter = "grayscale"
    /\ params = [Brightness |-> <<1, 1>>, Contrast |-> <<1, 1>>, BlurRadius |-> 0]
    /\ build = "plain"
    /\ rowWorkers = 1
    /\ MainAtRun
    /\ ctxDone = FALSE
    /\ PoolIdle
    /\ MetaIdle
    /\ PathIdle
    /\ RowPoolIdle
    /\ ImageIdle
    /\ FilterIdle

\* the same call under the Go scheduler: a worker goroutine that can run is
\* eventually run, and ProcessSingleImage returns
SpecFair ==
    /\ InitFair
    /\ [][Next]_vars
    /\ \A w \in 0 .. MaxWorkers - 1 : WF_vars(WorkerStep(w))

\* --------------------------------------------- Processor.ProcessSingleImage
\* One call, followed statement by statement with its row goroutines.

\* ImageToRGBA(img): a new RGBA buffer with the pixels of the decoded image
ImageToRGBA(img) == img

\* ExtractRowPixels returns nil: the row is outside the image
ExtractRowPixelsNil(r) == r < 0 \/ r >= height

\* ExtractRowPixels(img, row): a fresh buffer with the width*4 values of the row
ExtractRowPixels(img, row) == img[row]

\* SetRowPixels goes past its guard
\* row < 0 || row >= bounds.Dy() || len(pixels) != width*4
SetRowPixelsOK(row, pixels) ==
    ~(row < 0 \/ row >= height \/ Len(pixels) # width * 4)

\* SetRowPixels(img, row, pixels): the buffer afterwards
SetRowPixels(img, row, pixels) ==
    IF SetRowPixelsOK(row, pixels) THEN [img EXCEPT ![row] = pixels] ELSE img

\* a faulty variant of StoreAt: results are stored in their order of arrival
StoreAt_Arrival(rowResult, stored) == Cardinality(stored)

\* the index of processedRows[rowResult.RowIndex] = rowResult.Pixels
StoreAt(rowResult, stored) == rowResult.RowIndex

\* a faulty variant of RowFailed: the collector does not look at rowResult.Error
RowFailed_Ignored(rr) == FALSE

\* rowResult.Error != nil
RowFailed(rr) == rr.Error

\* os.Stat(job.InputPath) and the size check against cfg.MaxFileSize
ImgStat ==
    /\ ipc = "stat"
    /\ IF file = "missing"
       THEN resultErr' = "stat" /\ ipc' = "ret"
       ELSE IF ExceedsMaxFileSize(file)
            THEN resultErr' = "size" /\ ipc' = "ret"
            ELSE resultErr' = resultErr /\ ipc' = "load"
    /\ UNCHANGED <<pathVars, metaVars, rowPoolVars, cfgVars, mainVars, filterVars,
                   ctxDone, poolVars, file, height, width, source, rgba,
                   rowPixels, rowpc, rowResults,
                   rowResultsClosed, closerpc, processedRows, written, decoded,
                   saveCalled, saveOK, reported, cancelAt>>

\* p.loadImage(job.InputPath)
ImgLoad ==
    /\ ipc = "load"
    /\ decoded' = TRUE
    /\ IF file = "corrupt"
       THEN resultErr' = "load" /\ ipc' = "ret" /\ rgba' = rgba
       ELSE resultErr' = resultErr /\ ipc' = "spawn" /\ rgba' = ImageToRGBA(source)
    /\ UNCHANGED <<pathVars, metaVars, rowPoolVars, cfgVars, mainVars, filterVars,
                   ctxDone, poolVars, file, height, width,
                   source, rowPixels, rowpc, rowResults, rowResultsClosed,
                   closerpc, processedRows, written, saveCalled, saveOK,
                   reported, cancelAt>>

\* ImageToRGBA, make(processedRows), make(rowResults, height), one goroutine
\* per row, and the goroutine that waits for them and closes rowResults
ImgSpawn ==
    /\ ipc = "spawn"
    /\ rowpc' = [r \in Rows |-> "run"]
    /\ reported' = [r \in Rows |-> "none"]
    /\ rowResults' = <<>>
    /\ processedRows' = {}
    /\ rowPixels' = <<>>
    /\ closerpc' = "wait"
    /\ ipc' = "collect"
    /\ UNCHANGED <<pathVars, metaVars, rowPoolVars, cfgVars, mainVars, filterVars,
                   ctxDone, poolVars, file, height, width,
                   source, rgba, rowResultsClosed, written, decoded, saveCalled,
                   saveOK, resultErr, cancelAt>>

\* a faulty variant of RowResultsCap: the channel has one slot less than rows
RowResultsCap_OneLess == height - 1

\* rowResults := make(chan models.RowResult, height)
RowResultsCap == height

\* the row goroutine: ExtractRowPixels, the registry lookup, the filter, and
\* its one send on rowResults (capacity height); wg.Done is deferred
RowTask(r) ==
    /\ r \in DOMAIN rowpc
    /\ rowpc[r] = "run"
    /\ Len(rowResults) < RowResultsCap
    /\ ~rowResultsClosed
    /\ LET failed == ExtractRowPixelsNil(r) \/ filter \notin FilterRegistry
           pixels == IF failed THEN <<>>
                     ELSE ApplyFilter(filter, ExtractRowPixels(rgba, r), width,
                                      params, build)
       IN  /\ rowResults' = Append(rowResults, [RowIndex |-> r, Error |-> failed,
                                                Pixels |-> pixels])
           /\ reported' = [reported EXCEPT ![r] = IF failed THEN "err" ELSE "ok"]
    /\ rowpc' = [rowpc EXCEPT ![r] = "done"]
    /\ UNCHANGED <<pathVars, metaVars, rowPoolVars, cfgVars, mainVars, filterVars,
                   ctxDone, poolVars, ipc, file, height,
                   width, source, rgba, rowPixels, rowResultsClosed, closerpc,
                   processedRows, written, decoded, saveCalled, saveOK,
                   resultErr, cancelAt>>

\* go func() { wg.Wait(); close(rowResults) }()
RowCloser ==
    /\ closerpc = "wait"
    /\ \A r \in Rows : rowpc[r] = "done"
    /\ rowResultsClosed' = TRUE
    /\ closerpc' = "done"
    /\ UNCHANGED <<pathVars, metaVars, rowPoolVars, cfgVars, mainVars, filterVars,
                   ctxDone, poolVars, ipc, file, height, width, source, rgba,
                   rowPixels, rowpc,
                   rowResults, processedRows, written, decoded, saveCalled,
                   saveOK, resultErr, reported, cancelAt>>

\* a faulty variant of RangeEnds: the loop ends as soon as the channel is empty
RangeEnds_OnEmpty == rowResults = <<>>

\* the range over rowResults ends: the channel is closed and drained
RangeEnds == rowResults = <<>> /\ rowResultsClosed

\* one iteration of: for rowResult := range rowResults { ... }
ImgCollect ==
    /\ ipc = "collect"
    /\ \/ /\ rowResults # <<>>
          /\ rowResults' = Tail(rowResults)
          /\ IF RowFailed(Head(rowResults))
             THEN /\ resultErr' = "row"
                  /\ ipc' = "ret"
                  /\ UNCHANGED <<processedRows, rowPixels>>
             ELSE /\ processedRows' =
                        processedRows \cup {StoreAt(Head(rowResults), processedRows)}
                  /\ rowPixels' =
                        [r \in processedRows' |->
                            IF r = StoreAt(Head(rowResults), processedRows)
                            THEN Head(rowResults).Pixels
                            ELSE rowPixels[r]]
                  /\ UNCHANGED <<resultErr, ipc>>
       \/ /\ RangeEnds
          /\ ipc' = "writeback"
          /\ UNCHANGED <<rowResults, resultErr, processedRows, rowPixels>>
    /\ UNCHANGED <<pathVars, metaVars, rowPoolVars, cfgVars, mainVars, filterVars,
                   ctxDone, poolVars, file, height, width,
                   source, rgba, rowpc, rowResultsClosed, closerpc, written,
                   decoded, saveCalled, saveOK, reported, cancelAt>>

\* for row := 0; row < height; row++ { if processedRows[row] != nil { SetRowPixels } }
ImgWriteBack ==
    /\ ipc = "writeback"
    /\ written' = {r \in Rows : r \in processedRows /\ SetRowPixelsOK(r, rowPixels[r])}
    /\ rgba' = [r \in Rows |->
                  IF r \in processedRows THEN SetRowPixels(rgba, r, rowPixels[r])[r]
                  ELSE rgba[r]]
    /\ ipc' = "save"
    /\ UNCHANGED <<pathVars, metaVars, rowPoolVars, cfgVars, mainVars, filterVars,
                   ctxDone, poolVars, file, height, width,
                   source, rowPixels, rowpc, rowResults, rowResultsClosed,
                   closerpc, processedRows, decoded, saveCalled, saveOK,
                   resultErr, reported, cancelAt>>

\* p.saveImage(rgba, job.OutputPath, format, quality): os.Create and the
\* encoder; either can fail
ImgSave ==
    /\ ipc = "save"
    /\ saveCalled' = TRUE
    /\ \E ok \in BOOLEAN :
          /\ saveOK' = ok
          /\ IF ok
             THEN /\ resultErr' = resultErr /\ ipc' = "statout"
                  /\ outputSize' \in 1 .. MaxOutputSize
             ELSE /\ resultErr' = "save" /\ ipc' = "ret"
                  /\ outputSize' = outputSize
    /\ UNCHANGED <<pathVars, processedSize, rowPoolVars, cfgVars, mainVars, filterVars,
                   ctxDone, poolVars, file, height, width, source, rgba,
                   rowPixels, rowpc, rowResults,
                   rowResultsClosed, closerpc, processedRows, written, decoded,
                   reported, cancelAt>>

\* the condition err != nil of
\* if outputInfo, err := os.Stat(job.OutputPath); err != nil { ... }
StatBranchTaken(statOK) == ~statOK

\* os.Stat(job.OutputPath) on the file just written, the assignment
\* result.Metadata.ProcessedSize = outputInfo.Size() inside the if, then
\* ProcessingTime is set and the result is returned with a nil Error.
\* When os.Stat fails outputInfo is nil and outputInfo.Size() panics.
ImgStatOut ==
    /\ ipc = "statout"
    /\ \E statOK \in BOOLEAN :
          IF StatBranchTaken(statOK)
          THEN IF statOK
               THEN /\ processedSize' = outputSize
                    /\ resultErr' = "nil" /\ ipc' = "ret"
               ELSE /\ ipc' = "panic"
                    /\ UNCHANGED <<processedSize, resultErr>>
          ELSE /\ processedSize' = processedSize
               /\ resultErr' = "nil" /\ ipc' = "ret"
    /\ UNCHANGED <<pathVars, outputSize, rowPoolVars, cfgVars, mainVars, filterVars,
                   ctxDone, poolVars, file, height, width, source, rgba,
                   rowPixels, rowpc, rowResults,
                   rowResultsClosed, closerpc, processedRows, written, decoded,
                   saveCalled, saveOK, reported, cancelAt>>

\* the pixel (v, v+85, v+170, 255-v), channels taken modulo 256: as v runs
\* over 0..255 every channel takes every uint8 value
SamplePixel(v) == <<v % 256, (v + 85) % 256, (v + 170) % 256, 255 - (v % 256)>>

\* a buffer of n pixels, the k-th being SamplePixel(v + 37*k)
RECURSIVE SampleBuffer(_, _)
SampleBuffer(v, n) ==
    IF n <= 0 THEN <<>> ELSE SamplePixel(v) \o SampleBuffer(v + 37, n - 1)

\* the rows a decoded image of width w is made of
SampleRows(w) == {SampleBuffer(10, w), SampleBuffer(200, w)}

\* the filter parameters of the job: a neutral and a non-neutral setting
ImageParams ==
    {[Brightness |-> <<1, 1>>, Contrast |-> <<1, 1>>, BlurRadius |-> 0],
     [Brightness |-> <<3, 2>>, Contrast |-> <<1, 2>>, BlurRadius |-> 1]}

\* a worker has just called ProcessSingleImage(ctx, job); the context may
\* already be cancelled or be cancelled during the call
InitImage ==
    /\ expectedResults = 1
    /\ workerCount = 1
    /\ bufferSize = 1
    /\ filter \in FilterInputs
    /\ ctxDone = FALSE
    /\ PoolIdle
    /\ MetaIdle
    /\ PathIdle
    /\ RowPoolIdle
    /\ ipc = "stat"
    /\ file \in FileStates
    /\ height \in (IF file = "ok" THEN 0 .. MaxHeight ELSE {0})
    /\ width \in (IF file = "ok" THEN 1 .. MaxWidth ELSE {0})
    /\ source \in [Rows -> SampleRows(width)]
    /\ rgba = <<>> /\ rowPixels = <<>>
    /\ params \in ImageParams
    /\ build \in Builds
    /\ rowWorkers \in 1 .. MaxRowWorkers
    /\ MainAtRun
    /\ FilterIdle
    /\ rowpc = <<>> /\ rowResults = <<>> /\ rowResultsClosed = FALSE
    /\ closerpc = "none" /\ processedRows = {} /\ written = {}
    /\ decoded = FALSE /\ saveCalled = FALSE /\ saveOK = FALSE
    /\ resultErr = "none" /\ reported = <<>> /\ cancelAt = NotCancelled

ImageStep ==
    \/ ImgStat
    \/ ImgLoad
    \/ ImgSpawn
    \/ \E r \in Rows : RowTask(r)
    \/ RowCloser
    \/ ImgCollect
    \/ ImgWriteBack
    \/ ImgSave
    \/ ImgStatOut

NextImage ==
    \/ Cancel
    \/ ImgStat
    \/ ImgLoad
    \/ ImgSpawn
    \/ \E r \in Rows : RowTask(r)
    \/ RowCloser
    \/ ImgCollect
    \/ ImgWriteBack
    \/ ImgSave
    \/ ImgStatOut

\* one ProcessSingleImage call
SpecImage == InitImage /\ [][NextImage]_vars

\* ----------------------------------------------- a second ProcessImages call
\* The Processor keeps its one WorkerPool (processor.New), so a caller that
\* invokes ProcessImages again after it returned runs Start, SubmitJob and
\* the deferred Stop on the pool the first call stopped. The locals of the
\* call are fresh; the caller passes the same context or a new one.
CallAgain ==
    /\ Running
    /\ pc = "returned"
    /\ pc' = "idle"
    /\ results' = <<>>
    /\ err' = "none"
    /\ submitted' = {}
    /\ rejected' = {}
    /\ nextJob' = 0
    /\ ctxDone' \in {ctxDone, FALSE}
    /\ UNCHANGED <<pathVars, metaVars, rowPoolVars, cfgVars, mainVars, filterVars,
                   imgVars, calls, jobQueue, jobQueueClosed,
                   resultQueue, resultQueueClosed, quitClosed, wpc, wjob, wres,
                   panicked>>

NextReuse ==
    \/ Cancel
    \/ Start
    \/ SubmitJob
    \/ CollectResult
    \/ StopCloseQuit
    \/ StopCloseJobQueue
    \/ StopWait
    \/ StopCloseResultQueue
    \/ \E w \in Workers : WorkerSelect(w)
    \/ \E w \in Workers : WorkerProcess(w)
    \/ \E w \in Workers : WorkerSend(w)
    \/ CallAgain

\* ProcessImages called any number of times on one Processor
SpecReuse == Init /\ [][NextReuse]_vars

\* ---------------------------------------------------------------- main
\* config.Load, the flag overrides, processor.New, findImageFiles and the
\* one ProcessImages call.

\* Config.Validate, for the fields the model carries
Validate ==
    /\ workerCount > 0
    /\ rowWorkers > 0
    /\ bufferSize > 0
    /\ filter \in FilterRegistry

\* the flags a command line can carry: each is left at its default or set
\* to another value
FlagSets ==
    [filter : {FilterFlagDefault,
               [changed |-> TRUE, value |-> "blur"],
               [changed |-> TRUE, value |-> "sepia"]},
     workers : {FlagDefault} \cup
               {[changed |-> TRUE, value |-> v] : v \in {0, MaxWorkers}},
     rowWorkers : {FlagDefault} \cup
                  {[changed |-> TRUE, value |-> v] : v \in {0, MaxRowWorkers}}]

\* the process starts: viper has merged the defaults, the config file and the
\* environment into cfg; no pool exists yet
InitMain ==
    /\ expectedResults \in 0 .. MaxFound
    /\ workerCount \in 0 .. MaxWorkers
    /\ bufferSize \in 0 .. MaxBuffer
    /\ rowWorkers \in 0 .. MaxRowWorkers
    /\ filter \in FilterInputs
    /\ params = [Brightness |-> <<1, 1>>, Contrast |-> <<1, 1>>, BlurRadius |-> 0]
    /\ build = "plain"
    /\ mpc = "load"
    /\ flags \in FlagSets
    /\ ctxDone = FALSE
    /\ pc = "idle" /\ nextJob = 0 /\ submitted = {} /\ rejected = {}
    /\ results = <<>> /\ err = "none" /\ calls = 0
    /\ jobQueue = <<>> /\ jobQueueClosed = FALSE
    /\ resultQueue = <<>> /\ resultQueueClosed = FALSE
    /\ quitClosed = FALSE
    /\ wpc = <<>> /\ wjob = <<>> /\ wres = <<>>
    /\ panicked = "none"
    /\ ImageIdle
    /\ FilterIdle
    /\ MetaIdle
    /\ PathIdle
    /\ RowPoolIdle

\* config.Load ends with cfg.Validate(); on an error main logs it with
\* log.Fatal, which exits
MainLoad ==
    /\ mpc = "load"
    /\ mpc' = IF Validate THEN "override" ELSE "exit"
    /\ UNCHANGED <<pathVars, metaVars, rowPoolVars, cfgVars, flags, ctxDone, poolVars, imgVars, filterVars>>

\* if *filter != "grayscale" { cfg.Filter = *filter }, and the same for
\* -workers and -row-workers; nothing validates cfg again
MainOverride ==
    /\ mpc = "override"
    /\ filter' = IF flags.filter.changed THEN flags.filter.value ELSE filter
    /\ workerCount' = IF flags.workers.changed THEN flags.workers.value
                      ELSE workerCount
    /\ rowWorkers' = IF flags.rowWorkers.changed THEN flags.rowWorkers.value
                     ELSE rowWorkers
    /\ mpc' = "new"
    /\ UNCHANGED <<pathVars, metaVars, rowPoolVars, expectedResults, bufferSize, params, build, flags, ctxDone,
                   poolVars, imgVars, filterVars>>

\* os.MkdirAll(cfg.OutputDir), which can fail (log.Fatal), and
\* processor.New(cfg, log): NewWorkerPool(cfg.Workers, cfg.BufferSize, ...)
MainNew ==
    /\ mpc = "new"
    /\ \/ /\ mpc' = "exit"
          /\ UNCHANGED <<wpc, wjob, wres>>
       \/ /\ mpc' = "find"
          /\ wpc' = [w \in Workers |-> "unstarted"]
          /\ wjob' = [w \in Workers |-> -1]
          /\ wres' = [w \in Workers |-> ZeroResult]
    /\ UNCHANGED <<pathVars, metaVars, rowPoolVars, cfgVars, flags, ctxDone, imgVars, filterVars, pc, nextJob,
                   submitted, rejected, results, err, calls, jobQueue,
                   jobQueueClosed, resultQueue, resultQueueClosed, quitClosed,
                   panicked>>

\* findImageFiles(cfg.InputDir) found expectedResults files; with none main
\* returns, otherwise it calls proc.ProcessImages(ctx, imageFiles)
MainFind ==
    /\ mpc = "find"
    /\ mpc' = IF expectedResults = 0 THEN "exit" ELSE "run"
    /\ UNCHANGED <<pathVars, metaVars, rowPoolVars, cfgVars, flags, ctxDone, poolVars, imgVars, filterVars>>

\* ProcessImages has returned: main logs the results and returns
MainDone ==
    /\ mpc = "run"
    /\ pc = "returned"
    /\ mpc' = "exit"
    /\ UNCHANGED <<pathVars, metaVars, rowPoolVars, cfgVars, flags, ctxDone, poolVars, imgVars, filterVars>>

NextMain ==
    \/ MainLoad
    \/ MainOverride
    \/ MainNew
    \/ MainFind
    \/ MainDone
    \/ Cancel
    \/ Start
    \/ SubmitJob
    \/ CollectResult
    \/ StopCloseQuit
    \/ StopCloseJobQueue
    \/ StopWait
    \/ StopCloseResultQueue
    \/ \E w \in DOMAIN wpc : WorkerSelect(w)
    \/ \E w \in DOMAIN wpc : WorkerProcess(w)
    \/ \E w \in DOMAIN wpc : WorkerSend(w)

\* one run of the program; the workers exist once NewWorkerPool has run
SpecMain == InitMain /\ [][NextMain]_vars

\* ------------------------------------------------- one filter function call
\* A filter of filters.go called on its own, as a pure function of its
\* arguments.

\* the buffers a filter is called with: up to MaxPixels sample pixels, whole
\* or cut short by one to three values, and the pixels (200, 50, 10, 255)
\* and (2, 2, 2, 255)
FilterBuffers ==
    {SubSeq(SampleBuffer(v, n), 1, 4 * n - cut) :
        v \in 0 .. 255, n \in 1 .. MaxPixels, cut \in 0 .. 3}
        \cup {<<>>, <<200, 50, 10, 255>>, <<2, 2, 2, 255>>}

InitFilter ==
    /\ expectedResults = 1
    /\ workerCount = 1
    /\ bufferSize = 1
    /\ filter = "grayscale"
    /\ params = [Brightness |-> <<1, 1>>, Contrast |-> <<1, 1>>, BlurRadius |-> 0]
    /\ build = "plain"
    /\ rowWorkers = 1
    /\ MainAtRun
    /\ ctxDone = FALSE
    /\ PoolIdle
    /\ MetaIdle
    /\ PathIdle
    /\ RowPoolIdle
    /\ ImageIdle
    /\ buf \in FilterBuffers
    /\ bufWidth \in -1 .. MaxWidth
    /\ out = <<>>
    /\ applied = "none"

\* ApplyGrayScale(buf, bufWidth, params), in a binary of any build
CallGrayScale ==
    /\ applied = "none"
    /\ \E b \in Builds :
          /\ build' = b
          /\ out' = ApplyGrayScale(buf, bufWidth, params, b)
    /\ applied' = "grayscale"
    /\ UNCHANGED <<pathVars, metaVars, rowPoolVars, expectedResults, workerCount, bufferSize, filter, params,
                   rowWorkers, mainVars, ctxDone, poolVars, imgVars, buf,
                   bufWidth>>

\* ApplyGrayScale called on the buffer ApplyGrayScale returned, in the same
\* binary
CallGrayScaleAgain ==
    /\ applied = "grayscale"
    /\ out' = ApplyGrayScale(out, bufWidth, params, build)
    /\ applied' = "grayscale twice"
    /\ UNCHANGED <<pathVars, metaVars, rowPoolVars, cfgVars, mainVars, ctxDone, poolVars, imgVars, buf, bufWidth>>

\* ApplyBrightness(buf, bufWidth, params) with any params.Brightness
CallBrightness ==
    /\ applied = "none"
    /\ \E f \in Factors :
          /\ params' = [params EXCEPT !.Brightness = f]
          /\ out' = ApplyBrightness(buf, bufWidth, params')
    /\ applied' = "brightness"
    /\ UNCHANGED <<pathVars, metaVars, rowPoolVars, expectedResults, workerCount, bufferSize, filter, build,
                   rowWorkers, mainVars, ctxDone, poolVars, imgVars, buf,
                   bufWidth>>

\* ApplyContrast(buf, bufWidth, params) with any params.Contrast
CallContrast ==
    /\ applied = "none"
    /\ \E f \in Factors :
          /\ params' = [params EXCEPT !.Contrast = f]
          /\ out' = ApplyContrast(buf, bufWidth, params')
    /\ applied' = "contrast"
    /\ UNCHANGED <<pathVars, metaVars, rowPoolVars, expectedResults, workerCount, bufferSize, filter, build,
                   rowWorkers, mainVars, ctxDone, poolVars, imgVars, buf,
                   bufWidth>>

\* ApplyBlur(buf, bufWidth, params) with any params.BlurRadius
CallBlur ==
    /\ applied = "none"
    /\ \E radius \in 0 .. MaxRadius :
          /\ params' = [params EXCEPT !.BlurRadius = radius]
          /\ IF ApplyBlurPanics(buf, bufWidth)
             THEN out' = out /\ applied' = "blur: panic"
             ELSE out' = ApplyBlur(buf, bufWidth, params') /\ applied' = "blur"
    /\ UNCHANGED <<pathVars, metaVars, rowPoolVars, expectedResults, workerCount, bufferSize, filter, build,
                   rowWorkers, mainVars, ctxDone, poolVars, imgVars, buf,
                   bufWidth>>

NextFilter ==
    \/ CallGrayScale
    \/ CallGrayScaleAgain
    \/ CallBrightness
    \/ CallContrast
    \/ CallBlur

\* one call of one filter function
SpecFilter == InitFilter /\ [][NextFilter]_vars

\* ------------------------------------ the pool that owns a row-job queue
\* worker.go also holds a WorkerPool with a rowJobQueue, a rowResults channel
\* and rowWorker goroutines. Its imageWorker is the loop of the pool above;
\* its processImageJob is a placeholder that waits 100ms or for ctx. One
\* client constructs the pool, calls Start, submits image and row jobs,
\* reads results, and calls Stop once. Row jobs and results are modelled by
\* their RowIndex and Error; the pixels play no part in the pool's channels.

\* the rowWorker goroutines: rowWorkers := wp.workerCount * 2
RowWorkers == 0 .. workerCount * 2 - 1

\* make(chan models.RowJob, bufferSize*10), make(chan models.RowResult,
\* bufferSize*10)
RowQueueCap == bufferSize * 10

InitRowPool ==
    /\ expectedResults = 1
    /\ workerCount \in 1 .. MaxWorkers
    /\ bufferSize \in 1 .. MaxBuffer
    /\ filter \in {"grayscale", "sepia"}
    /\ params = [Brightness |-> <<1, 1>>, Contrast |-> <<1, 1>>, BlurRadius |-> 0]
    /\ build = "plain"
    /\ rowWorkers = 1
    /\ MainAtRun
    /\ ctxDone = FALSE
    /\ PoolIdle
    /\ ImageIdle
    /\ FilterIdle
    /\ MetaIdle
    /\ PathIdle
    /\ spc = "new"
    /\ rowJobQueue = <<>> /\ rowJobQueueClosed = FALSE
    /\ wpRowResults = <<>>
    /\ rwpc = [i \in RowWorkers |-> "unstarted"]
    /\ rwjob = [i \in RowWorkers |-> -1]
    /\ nextRow = 0
    /\ closeCalls = [c \in PoolChannels |-> 0]

\* Start: workerCount imageWorkers and workerCount*2 rowWorkers
RowPoolStart ==
    /\ Running
    /\ spc = "new"
    /\ spc' = "run"
    /\ wpc' = [w \in Workers |-> "select"]
    /\ rwpc' = [i \in RowWorkers |-> "select"]
    /\ UNCHANGED <<pathVars, metaVars, cfgVars, mainVars, filterVars, ctxDone, imgVars,
                   pc, nextJob, submitted, rejected, results, err, calls,
                   jobQueue, jobQueueClosed, resultQueue, resultQueueClosed,
                   quitClosed, wjob, wres, panicked, rowJobQueue,
                   rowJobQueueClosed, wpRowResults, rwjob, nextRow,
                   closeCalls>>

\* SubmitJob of this pool: select { case wp.jobQueue <- job: case <-wp.quit: }
RowPoolSubmitJob ==
    /\ Running
    /\ spc = "run"
    /\ nextJob < MaxSubmits
    /\ \/ /\ ~jobQueueClosed
          /\ HasRoom(jobQueue)
          /\ jobQueue' = Append(jobQueue, nextJob)
          /\ submitted' = submitted \cup {nextJob}
          /\ UNCHANGED rejected
       \/ /\ quitClosed
          /\ rejected' = rejected \cup {nextJob}
          /\ UNCHANGED <<jobQueue, submitted>>
    /\ nextJob' = nextJob + 1
    /\ UNCHANGED <<pathVars, metaVars, rowPoolVars, cfgVars, mainVars, filterVars,
                   ctxDone, imgVars, pc, results, err, calls, jobQueueClosed,
                   resultQueue, resultQueueClosed, quitClosed, wpc, wjob,
                   wres, panicked>>

\* SubmitRowJob: select { case wp.rowJobQueue <- job: case <-wp.quit: }
SubmitRowJob ==
    /\ Running
    /\ spc = "run"
    /\ nextRow < MaxRowJobs
    /\ \/ /\ ~rowJobQueueClosed
          /\ Len(rowJobQueue) < RowQueueCap
          /\ rowJobQueue' = Append(rowJobQueue, nextRow)
       \/ /\ quitClosed
          /\ UNCHANGED rowJobQueue
    /\ nextRow' = nextRow + 1
    /\ UNCHANGED <<pathVars, metaVars, cfgVars, mainVars, filterVars, ctxDone, imgVars,
                   poolVars, spc, rowJobQueueClosed, wpRowResults, rwpc,
                   rwjob, closeCalls>>

\* the client receives from Results()
RowPoolReceiveResult ==
    /\ Running
    /\ spc = "run"
    /\ resultQueue # <<>>
    /\ results' = Append(results, Head(resultQueue))
    /\ resultQueue' = Tail(resultQueue)
    /\ UNCHANGED <<pathVars, metaVars, rowPoolVars, cfgVars, mainVars, filterVars,
                   ctxDone, imgVars, pc, nextJob, submitted, rejected, err,
                   calls, jobQueue, jobQueueClosed, resultQueueClosed,
                   quitClosed, wpc, wjob, wres, panicked>>

\* the client receives from RowResults()
RowPoolReceiveRowResult ==
    /\ Running
    /\ spc = "run"
    /\ wpRowResults # <<>>
    /\ wpRowResults' = Tail(wpRowResults)
    /\ UNCHANGED <<pathVars, metaVars, cfgVars, mainVars, filterVars, ctxDone, imgVars,
                   poolVars, spc, rowJobQueue, rowJobQueueClosed, rwpc, rwjob,
                   nextRow, closeCalls>>

\* processImageJob of this pool: the placeholder ProcessSingleImage,
\* select { case <-ctx.Done(): result.Error = ctx.Err()
\*          case <-time.After(100ms): }
PlaceholderProcess(w) ==
    /\ Running
    /\ spc # "none"
    /\ wpc[w] = "process"
    /\ \E failed \in (IF ctxDone THEN BOOLEAN ELSE {FALSE}) :
          wres' = [wres EXCEPT ![w] = [id |-> wjob[w], failed |-> failed]]
    /\ wjob' = [wjob EXCEPT ![w] = -1]
    /\ wpc' = [wpc EXCEPT ![w] = "send"]
    /\ UNCHANGED <<pathVars, metaVars, rowPoolVars, cfgVars, mainVars, filterVars,
                   ctxDone, imgVars, pc, nextJob, submitted, rejected,
                   results, err, calls, jobQueue, jobQueueClosed, resultQueue,
                   resultQueueClosed, quitClosed, panicked>>

\* the outer select of rowWorker, and the filter applied to the received
\* row: select { case <-ctx.Done(): return  case <-wp.quit: return
\*               case job, ok := <-wp.rowJobQueue: if !ok { return } ... }
RowWorkerSelect(i) ==
    /\ Running
    /\ rwpc[i] = "select"
    /\ \/ /\ ctxDone \/ quitClosed
          /\ rwpc' = [rwpc EXCEPT ![i] = "stopped"]
          /\ UNCHANGED <<rowJobQueue, rwjob>>
       \/ /\ rowJobQueue # <<>>
          /\ rwjob' = [rwjob EXCEPT ![i] = Head(rowJobQueue)]
          /\ rowJobQueue' = Tail(rowJobQueue)
          /\ rwpc' = [rwpc EXCEPT ![i] = "send"]
       \/ /\ rowJobQueue = <<>>
          /\ rowJobQueueClosed
          /\ rwpc' = [rwpc EXCEPT ![i] = "stopped"]
          /\ UNCHANGED <<rowJobQueue, rwjob>>
    /\ UNCHANGED <<pathVars, metaVars, cfgVars, mainVars, filterVars, ctxDone, imgVars,
                   poolVars, spc, rowJobQueueClosed, wpRowResults, nextRow,
                   closeCalls>>

\* the inner select of rowWorker:
\* select { case wp.rowResults <- result:  case <-ctx.Done(): return
\*          case <-wp.quit: return }
RowWorkerSend(i) ==
    /\ Running
    /\ rwpc[i] = "send"
    /\ \/ /\ Len(wpRowResults) < RowQueueCap
          /\ wpRowResults' = Append(wpRowResults,
                [RowIndex |-> rwjob[i], Error |-> filter \notin FilterRegistry])
          /\ rwpc' = [rwpc EXCEPT ![i] = "select"]
       \/ /\ ctxDone \/ quitClosed
          /\ rwpc' = [rwpc EXCEPT ![i] = "stopped"]
          /\ UNCHANGED wpRowResults
    /\ rwjob' = [rwjob EXCEPT ![i] = -1]
    /\ UNCHANGED <<pathVars, metaVars, cfgVars, mainVars, filterVars, ctxDone, imgVars,
                   poolVars, spc, rowJobQueue, rowJobQueueClosed, nextRow,
                   closeCalls>>

\* close(ch) called by Stop at position at: a closed channel makes it panic
RowPoolClose(at, ch, closed, then) ==
    /\ Running
    /\ spc = at
    /\ closeCalls' = [closeCalls EXCEPT ![ch] = @ + 1]
    /\ IF closed
       THEN /\ panicked' = "Stop: close of closed channel"
            /\ UNCHANGED spc
       ELSE /\ spc' = then
            /\ UNCHANGED panicked

\* Stop: close(wp.quit)
RowPoolStopCloseQuit ==
    /\ RowPoolClose("run", "quit", quitClosed, "stop_jobs")
    /\ quitClosed' = TRUE
    /\ UNCHANGED <<pathVars, metaVars, cfgVars, mainVars, filterVars, ctxDone, imgVars,
                   pc, nextJob, submitted, rejected, results, err, calls,
                   jobQueue, jobQueueClosed, resultQueue, resultQueueClosed,
                   wpc, wjob, wres, rowJobQueue, rowJobQueueClosed,
                   wpRowResults, rwpc, rwjob, nextRow>>

\* Stop: close(wp.jobQueue)
RowPoolStopCloseJobQueue ==
    /\ RowPoolClose("stop_jobs", "jobQueue", jobQueueClosed, "stop_rows")
    /\ jobQueueClosed' = TRUE
    /\ UNCHANGED <<pathVars, metaVars, cfgVars, mainVars, filterVars, ctxDone, imgVars,
                   pc, nextJob, submitted, rejected, results, err, calls,
                   jobQueue, quitClosed, resultQueue, resultQueueClosed,
                   wpc, wjob, wres, rowJobQueue, rowJobQueueClosed,
                   wpRowResults, rwpc, rwjob, nextRow>>

\* Stop: close(wp.rowJobQueue)
RowPoolStopCloseRowJobQueue ==
    /\ RowPoolClose("stop_rows", "rowJobQueue", rowJobQueueClosed, "stop_wait")
    /\ rowJobQueueClosed' = TRUE
    /\ UNCHANGED <<pathVars, metaVars, cfgVars, mainVars, filterVars, ctxDone, imgVars,
                   pc, nextJob, submitted, rejected, results, err, calls,
                   jobQueue, jobQueueClosed, quitClosed, resultQueue,
                   resultQueueClosed, wpc, wjob, wres, rowJobQueue,
                   wpRowResults, rwpc, rwjob, nextRow>>

\* wp.wg is zero: every imageWorker and every rowWorker has run its deferred
\* wg.Done()
RowPoolWaitGroupZero ==
    /\ \A w \in Workers : wpc[w] = "stopped"
    /\ \A i \in RowWorkers : rwpc[i] = "stopped"

\* Stop: wp.wg.Wait() returns
RowPoolStopWait ==
    /\ Running
    /\ spc = "stop_wait"
    /\ RowPoolWaitGroupZero
    /\ spc' = "stop_results"
    /\ UNCHANGED <<pathVars, metaVars, cfgVars, mainVars, filterVars, ctxDone, imgVars,
                   poolVars, rowJobQueue, rowJobQueueClosed, wpRowResults,
                   rwpc, rwjob, nextRow, closeCalls>>

\* Stop: the first close(wp.resultQueue)
RowPoolStopCloseResultQueue ==
    /\ RowPoolClose("stop_results", "resultQueue", resultQueueClosed,
                    "stop_results_again")
    /\ resultQueueClosed' = TRUE
    /\ UNCHANGED <<pathVars, metaVars, cfgVars, mainVars, filterVars, ctxDone, imgVars,
                   pc, nextJob, submitted, rejected, results, err, calls,
                   jobQueue, jobQueueClosed, quitClosed, resultQueue,
                   wpc, wjob, wres, rowJobQueue, rowJobQueueClosed,
                   wpRowResults, rwpc, rwjob, nextRow>>

\* Stop: the second close(wp.resultQueue), after which Stop returns
RowPoolStopCloseResultQueueAgain ==
    /\ RowPoolClose("stop_results_again", "resultQueue", resultQueueClosed,
                    "stopped")
    /\ resultQueueClosed' = TRUE
    /\ UNCHANGED <<pathVars, metaVars, cfgVars, mainVars, filterVars, ctxDone, imgVars,
                   pc, nextJob, submitted, rejected, results, err, calls,
                   jobQueue, jobQueueClosed, quitClosed, resultQueue,
                   wpc, wjob, wres, rowJobQueue, rowJobQueueClosed,
                   wpRowResults, rwpc, rwjob, nextRow>>

NextRowPool ==
    \/ Cancel
    \/ RowPoolStart
    \/ RowPoolSubmitJob
    \/ SubmitRowJob
    \/ RowPoolReceiveResult
    \/ RowPoolReceiveRowResult
    \/ \E w \in Workers : WorkerSelect(w) \/ PlaceholderProcess(w) \/ WorkerSend(w)
    \/ \E i \in RowWorkers : RowWorkerSelect(i) \/ RowWorkerSend(i)
    \/ RowPoolStopCloseQuit
    \/ RowPoolStopCloseJobQueue
    \/ RowPoolStopCloseRowJobQueue
    \/ RowPoolStopWait
    \/ RowPoolStopCloseResultQueue
    \/ RowPoolStopCloseResultQueueAgain

SpecRowPool == InitRowPool /\ [][NextRowPool]_vars

\* ------------------------------------------------- the jobs of one batch
\* A path is modelled by the parts filepath takes it apart into: dir is
\* filepath.Dir as a sequence of directory names, name and ext are
\* filepath.Base split at filepath.Ext; a file name is a sequence of tokens,
\* so that appending "_" and the filter name is a concatenation.
PathDirs == {<<"in">>, <<"in", "sub">>}
PathNames == {<<"a">>, <<"b">>}
PathExts == {".png", ".jpg"}

\* the files filepath.Walk can meet under the input directory that have a
\* supported extension: one path per file, in sub-directories too
FoundFiles == [dir : PathDirs, name : PathNames, ext : PathExts]

\* the slices findImageFiles can return: each file of the tree once
findImageFiles ==
    {q \in UNION {[1 .. k -> FoundFiles] : k \in 1 .. MaxFound} :
        \A i, j \in DOMAIN q : i # j => q[i] # q[j]}

\* outputDir := p.config.OutputDir; if outputDir == "" { outputDir = dir }
OutputDirOf(dir) == IF outputDir = <<>> THEN dir ELSE outputDir

\* generateOutputPath: filepath.Join(outputDir, name + "_" + filter + ext)
generateOutputPath(inputPath) ==
    LET dir == inputPath.dir
        ext == inputPath.ext
        name == inputPath.name
    IN  [dir |-> OutputDirOf(dir), name |-> name \o <<"_", filter>>, ext |-> ext]

InitPaths ==
    /\ imagePaths \in findImageFiles
    /\ expectedResults = Len(imagePaths)
    /\ workerCount = 1
    /\ bufferSize = 1
    /\ filter \in FilterRegistry
    /\ params = [Brightness |-> <<1, 1>>, Contrast |-> <<1, 1>>, BlurRadius |-> 0]
    /\ build = "plain"
    /\ rowWorkers = 1
    /\ MainAtRun
    /\ ctxDone = FALSE
    /\ PoolIdle
    /\ ImageIdle
    /\ FilterIdle
    /\ MetaIdle
    /\ RowPoolIdle
    /\ outputDir \in {<<>>, <<"out">>}
    /\ jobs = <<>>

\* one iteration of for i, path := range imagePaths: the ImageJob literal.
\* What SubmitJob then does with the job is the action SubmitJob of the
\* batch run, which carries the job's index only.
BuildJob ==
    /\ Len(jobs) < Len(imagePaths)
    /\ LET i == Len(jobs)
           path == imagePaths[i + 1]
       IN  jobs' = Append(jobs, [ID |-> i, InputPath |-> path,
                                 OutputPath |-> generateOutputPath(path)])
    /\ UNCHANGED <<imagePaths, outputDir, metaVars, rowPoolVars, cfgVars,
                   mainVars, filterVars, ctxDone, poolVars, imgVars>>

NextPaths == BuildJob

SpecPaths == InitPaths /\ [][NextPaths]_vars

\* ===================================================================== claims

\* ids of the jobs whose results the caller holds
ResultIds == {results[k].id : k \in 1 .. Len(results)}

AllJobs == 0 .. expectedResults - 1

\* C1: with the context never cancelled, ProcessImages eventually returns for
\* every batch size, worker count and buffer size. Stated as the absence of
\* a stuck call: while the context is not cancelled and the call has not
\* returned, some goroutine of the program can take a step.
C1_ProcessImagesReturns ==
    (Running /\ ~ctxDone /\ pc # "returned") => ENABLED BatchStep

\* C2: when ProcessImages returns a nil error, the returned list has exactly
\* len(imagePaths) entries, one for each submitted job, none missing and none
\* twice.
C2_NilReturnOnePerJob ==
    (pc = "returned" /\ err = "nil") =>
        /\ Len(results) = expectedResults
        /\ ResultIds = AllJobs
        /\ submitted = AllJobs

\* a nil return of a batch of at least three jobs, one of them failed, whose
\* results arrived out of submission order
C2_Witness ==
    /\ pc = "returned" /\ err = "nil"
    /\ expectedResults >= 3
    /\ \E k \in 1 .. Len(results) : results[k].failed
    /\ results[1].id # 0

\* C3: once the context is cancelled, at whatever moment of the call,
\* ProcessImages eventually returns; it never blocks forever. Stated as the
\* absence of a stuck call after the cancellation.
C3_CancelledCallReturns ==
    (Running /\ ctxDone /\ pc # "returned") => ENABLED BatchStep

\* C4: when ProcessImages returns the cancellation error, the returned list
\* has at most len(imagePaths) results, each of a job that was submitted, and
\* no job twice.
C4_CancelledReturnPartial ==
    (pc = "returned" /\ err = "canceled") =>
        /\ Len(results) <= expectedResults
        /\ ResultIds \subseteq submitted
        /\ Cardinality(ResultIds) = Len(results)

\* a cancelled return that holds some results, but not all
C4_Witness ==
    /\ pc = "returned" /\ err = "canceled"
    /\ Len(results) >= 1
    /\ Len(results) < Cardinality(submitted)

\* C5: a SubmitJob call made after Stop has begun returns by rejecting the
\* job: it does not block, it does not send on the closed job queue (no
\* panic), and the job is not enqueued.
C5_SubmitAfterStopRejects ==
    /\ panicked # "SubmitJob: send on closed channel"
    /\ (Running /\ pc = "submit" /\ quitClosed) => ENABLED SubmitJob
    /\ calls >= 2 => submitted = {}

\* C6: Stop closes the result channel once, and only after every image
\* worker has exited: no worker sends on the closed result channel and no
\* close hits a closed channel.
C6_ResultChannelClosedAfterWorkers ==
    /\ resultQueueClosed => \A w \in Workers : wpc[w] = "stopped"
    /\ panicked = "none"
    /\ pc = "returned" => resultQueueClosed

\* Stop has closed the result channel of a batch in which a worker exited
\* with a result it could not hand over: a submitted job that no queue, no
\* worker and no result of the caller holds any more
C6_Witness ==
    /\ resultQueueClosed
    /\ Len(results) >= 1
    /\ \E j \in submitted :
          /\ j \notin ResultIds
          /\ \A k \in 1 .. Len(resultQueue) : resultQueue[k].id # j
          /\ \A k \in 1 .. Len(jobQueue) : jobQueue[k] # j

\* saveImage ran to its end: the output file holds the encoded image
OutputWritten == saveCalled /\ saveOK

\* C7: a job cancelled before its row join has completed never produces an
\* output file: when the context is cancelled while ProcessSingleImage is
\* collecting row results and has not joined them all, the save is skipped.
C7_CancelledBeforeJoinNotSaved ==
    (cancelAt.pos = "collect" /\ cancelAt.joined < height) => ~OutputWritten

\* a job that failed has had its result produced
FailedProduced ==
    \/ \E w \in Workers : wpc[w] = "send" /\ wres[w].failed
    \/ \E k \in 1 .. Len(resultQueue) : resultQueue[k].failed
    \/ \E k \in 1 .. Len(results) : results[k].failed

\* C8: a failed job yields its one result with the error set, its worker goes
\* back to dequeuing, and every other submitted job of a non-cancelled batch
\* still produces its result. Stated as: in a non-cancelled batch with a
\* failed job, while a submitted job has no result with the caller yet, some
\* goroutine of the program can take a step.
C8_FailedJobLeavesPoolRunning ==
    (Running /\ ~ctxDone /\ FailedProduced /\ submitted \ ResultIds # {})
        => ENABLED BatchStep

\* C9: if any row task reports an error, ProcessSingleImage returns the
\* "row processing failed" error and saveImage is never called, in whatever
\* order the row results arrive; the image buffer is not written either.
C9_RowErrorNeverSaved ==
    (\E r \in DOMAIN reported : reported[r] = "err") =>
        /\ ~saveCalled
        /\ written = {}
        /\ ipc = "ret" => resultErr = "row"

\* ProcessSingleImage returned the row error of a two-row image on the first
\* result it received, which came from row 1, with the other result unread
C9_Witness ==
    /\ ipc = "ret" /\ resultErr = "row"
    /\ height = 2
    /\ reported[0] = "err" /\ reported[1] = "err"
    /\ Len(rowResults) = 1
    /\ rowResults[1].RowIndex = 0

\* C10: for a filter that is not in the registry and a decodable image of
\* any width and height, the job's result carries an error and no output
\* file is written.
C10_UnknownFilterFails ==
    (ipc = "ret" /\ file = "ok" /\ filter \notin FilterRegistry) =>
        /\ resultErr # "nil"
        /\ ~OutputWritten

\* C11: for a job whose input file is larger than the configured maximum, the
\* returned ProcessingResult carries the size-limit error, loadImage is never
\* called and saveImage is never called, so no output file is created.
C11_OversizedRejected ==
    file = "oversized" =>
        /\ ~decoded
        /\ ~saveCalled
        /\ ipc = "ret" => resultErr = "size"

\* ProcessSingleImage has returned for an oversized input
C11_Witness == file = "oversized" /\ ipc = "ret" /\ resultErr = "size"
\* C12: once the context is cancelled, no image worker takes a further job
\* off the job queue and starts processing it: no step taken with ctx.Done()
\* closed moves a worker from its outer select into ProcessSingleImage.
C12_NoDequeueAfterCancel ==
    [][ctxDone => \A w \in Workers :
                     ~(wpc[w] = "select" /\ wpc'[w] = "process")]_vars
\* C13: every started image worker eventually reaches its stopped state once
\* the context is cancelled or Stop has closed quit, also when it is waiting
\* to hand its result to a full result channel; and a stopped worker stays
\* stopped: it never dequeues again. As stopped workers stay stopped, "each
\* worker eventually stops" is "eventually all workers are stopped".
C13_WorkersStop ==
    /\ (pc # "idle" /\ (ctxDone \/ quitClosed))
          ~> (\A w \in Workers : wpc[w] = "stopped")
    /\ [][\A w \in Workers : wpc[w] = "stopped" => wpc'[w] = "stopped"]_vars

\* after a cancellation every worker has stopped, the result channel is full,
\* and one worker gave up the hand-over of its result: a submitted job that
\* no queue, no worker and no result of the caller holds
C13_Witness ==
    /\ ctxDone
    /\ \A w \in Workers : wpc[w] = "stopped"
    /\ Len(resultQueue) = bufferSize
    /\ \E j \in submitted :
          /\ j \notin ResultIds
          /\ \A k \in 1 .. Len(resultQueue) : resultQueue[k].id # j
          /\ \A k \in 1 .. Len(jobQueue) : jobQueue[k] # j
\* the jobs a worker has dequeued and not yet handed to the result channel
\* (or given up): inside ProcessSingleImage, or waiting in the inner select
JobsInFlight ==
    {wjob[w] : w \in {v \in DOMAIN wpc : wpc[v] = "process"}}
        \cup {wres[w].id : w \in {v \in DOMAIN wpc : wpc[v] = "send"}}

\* C14: in every reachable state the number of image jobs in flight
\* (dequeued by a worker, result not yet handed off) is at most cfg.Workers.
C14_InFlightAtMostWorkers == Cardinality(JobsInFlight) <= workerCount

\* two workers hold a job each while further jobs wait: one is inside
\* ProcessSingleImage, the other is waiting to hand its result over
C14_Witness ==
    /\ workerCount >= 2
    /\ Cardinality(JobsInFlight) = workerCount
    /\ jobQueue # <<>>
    /\ \E w \in Workers : wpc[w] = "process"
    /\ \E w \in Workers : wpc[w] = "send"
\* in how many places job j is held: entries of the job queue, workers
\* processing it, workers handing its result over, entries of the result
\* channel, and results the caller has collected
Holders(j) ==
    Cardinality({k \in 1 .. Len(jobQueue) : jobQueue[k] = j})
    + Cardinality({w \in Workers : wpc[w] = "process" /\ wjob[w] = j})
    + Cardinality({w \in Workers : wpc[w] = "send" /\ wres[w].id = j})
    + Cardinality({k \in 1 .. Len(resultQueue) : resultQueue[k].id = j})
    + Cardinality({k \in 1 .. Len(results) : results[k].id = j})

\* C15: every job placed on the job queue is dequeued by at most one worker
\* and gives rise to at most one ProcessingResult, under any interleaving of
\* the workers: a job is never held in two places at once, and only
\* submitted jobs are held.
C15_JobHandledOnce ==
    /\ \A j \in AllJobs : Holders(j) <= 1
    /\ \A j \in AllJobs \ submitted : Holders(j) = 0

\* two workers are handing over the results of different jobs while the
\* result channel and the caller each hold the result of yet another job
C15_Witness ==
    /\ \E v, w \in Workers :
          /\ v # w
          /\ wpc[v] = "send" /\ wpc[w] = "send"
          /\ wres[v].id # wres[w].id
    /\ resultQueue # <<>>
    /\ results # <<>>
\* C16: for a job that succeeds, every row i of the image handed to saveImage
\* equals the selected filter applied to source row i, whatever the order in
\* which the row tasks completed, and every row index was written back, none
\* missing.
C16_RowsFilteredInPlace ==
    (ipc = "ret" /\ resultErr = "nil" /\ filter \in FilterRegistry) =>
        /\ written = Rows
        /\ DOMAIN rgba = Rows
        /\ \A i \in Rows :
              rgba[i] = ApplyFilter(filter, source[i], width, params, build)

\* a successful job on an image of two different rows, under a filter that
\* changed both of them
C16_Witness ==
    /\ ipc = "ret" /\ resultErr = "nil"
    /\ height = 2
    /\ source[0] # source[1]
    /\ rgba[0] # source[0] /\ rgba[1] # source[1]
    /\ rgba[0] # rgba[1]
\* C17: the configuration with which the processor runs satisfies the
\* validation rules (workers > 0, row workers > 0, a registered filter),
\* wherever its values came from (config file, environment or command-line
\* override): a violation stops the program before any job is submitted, so
\* whenever a job has been submitted, cfg passes Validate.
C17_RunConfigValid == submitted # {} => Validate
\* the row goroutines of the image that have been started and have not
\* finished
RunningRowTasks == {r \in DOMAIN rowpc : rowpc[r] = "run"}

\* C18: for every image, the number of row-processing tasks running at the
\* same time never exceeds the configured row_workers value.
C18_RowTasksAtMostRowWorkers == Cardinality(RunningRowTasks) <= rowWorkers
\* C19: ApplyContrast with factor 1.0 returns a buffer equal to its input,
\* for every RGBA buffer whose length is a multiple of 4 and every channel
\* value in 0..255; the pixel (200, 50, 10, 255) stays (200, 50, 10, 255).
C19_ContrastOneIsIdentity ==
    (applied = "contrast" /\ params.Contrast = <<1, 1>> /\ Len(buf) % 4 = 0)
        => out = buf

\* C20: ApplyBrightness with factor 1.0 returns a buffer equal to its input,
\* for every RGBA buffer whose length is a multiple of 4 and every channel
\* value in 0..255.
C20_BrightnessOneIsIdentity ==
    (applied = "brightness" /\ params.Brightness = <<1, 1>> /\ Len(buf) % 4 = 0)
        => out = buf

\* ApplyBrightness with factor 1.0 has returned a two-pixel buffer that holds
\* the colour value 255 and a colour value below 128
C20_Witness ==
    /\ applied = "brightness" /\ params.Brightness = <<1, 1>>
    /\ Len(buf) = 8
    /\ \E i, j \in 1 .. 8 :
          i % 4 # 0 /\ j % 4 # 0 /\ buf[i] = 255 /\ buf[j] < 128
    /\ out = buf
\* the rows 0 .. n-1 of an image, one after the other in one buffer
RECURSIVE Flatten(_, _)
Flatten(img, n) ==
    IF n <= 0 THEN <<>> ELSE Flatten(img, n - 1) \o img[n - 1]

\* row i of an image held in one buffer, w pixels per row
BufferRow(b, i, w) == SubSeq(b, i * w * 4 + 1, (i + 1) * w * 4)

\* C21: for a job with filter blur and radius r > 0, every pixel of the
\* output image is the truncated per-channel mean (alpha included) of the
\* in-bounds source pixels of its (2r+1)x(2r+1) window, pixels of the
\* neighbouring rows included: the output is the box blur of the whole image.
C21_BlurIsBoxMeanOfImage ==
    (ipc = "ret" /\ resultErr = "nil" /\ filter = "blur"
        /\ params.BlurRadius > 0) =>
        \A i \in Rows :
            rgba[i] = BufferRow(ApplyBlur(Flatten(source, height), width, params),
                                i, width)
\* C22: for grayscale, brightness and contrast with any parameters and every
\* input buffer whose length is a multiple of 4, the output has the length
\* of the input and every output pixel has the alpha byte of its input
\* pixel.
C22_AlphaAndLengthKept ==
    (applied \in {"grayscale", "brightness", "contrast"} /\ Len(buf) % 4 = 0) =>
        /\ Len(out) = Len(buf)
        /\ \A i \in 1 .. Len(buf) : i % 4 = 0 => out[i] = buf[i]

\* contrast has changed the colours of a two-pixel buffer whose pixels are
\* not opaque
C22_Witness ==
    /\ applied = "contrast"
    /\ Len(buf) = 8 /\ Len(out) = 8
    /\ out # buf
    /\ buf[4] < 255 /\ buf[8] < 255 /\ buf[4] # buf[8]
    /\ out[4] = buf[4] /\ out[8] = buf[8]
\* C23: grayscale is idempotent: for every RGBA buffer whose length is a
\* multiple of 4, ApplyGrayScale applied to the output of ApplyGrayScale
\* yields the same buffer as a single application.
C23_GrayScaleIdempotent ==
    (applied = "grayscale twice" /\ Len(buf) % 4 = 0) =>
        out = ApplyGrayScale(buf, bufWidth, params, build)
\* C24: every filter of the registry, given a buffer whose length is not a
\* multiple of 4, returns that buffer unchanged, without a panic and without
\* truncation, for any width and any parameters.
C24_OddBufferUnchanged ==
    (applied # "none" /\ Len(buf) % 4 # 0) =>
        /\ applied # "blur: panic"
        /\ out = buf

\* ApplyBlur with a positive radius and width 0 has returned a buffer of one
\* pixel and a half
C24_Witness ==
    /\ applied = "blur"
    /\ bufWidth = 0
    /\ params.BlurRadius > 0
    /\ Len(buf) = 6
    /\ out = buf
\* no step writes the image buffer while a row task of the image is running
NoWriteDuringFanOut ==
    [][rgba' # rgba => \A r \in DOMAIN rowpc : rowpc[r] # "run"]_vars

\* C25, as stated: while any row task of an image is still running the
\* image's pixel buffer is not written, and on a failing job the buffer is
\* never written at all.
C25_BufferWrittenOnlyAfterJoin ==
    /\ NoWriteDuringFanOut
    /\ []((ipc = "ret" /\ resultErr # "nil") => written = {})

\* C25, amended: while any row task of an image is still running the image's
\* pixel buffer is not written, and on a job that fails before its
\* write-back (stat, size, decode or row error) the buffer is never written;
\* a job that fails in saveImage has written its rows before.
C25_Amended ==
    /\ NoWriteDuringFanOut
    /\ []((ipc = "ret" /\ resultErr \notin {"nil", "save"}) =>
            /\ written = {}
            /\ rgba \in {<<>>, source})

\* the write-back of a two-row image has changed both rows, after both row
\* tasks finished
C25_Witness ==
    /\ ipc = "save"
    /\ height = 2
    /\ written = Rows
    /\ rgba[0] # source[0] /\ rgba[1] # source[1]
    /\ \A r \in Rows : rowpc[r] = "done"
\* C26: ProcessSingleImage does not return its result, success or failure,
\* before every row task of the image has reported its RowResult.
C26_ReturnsAfterAllRowsReported ==
    ipc = "ret" => \A r \in DOMAIN reported : reported[r] # "none"
\* C27: while quit is not closed SubmitJob never drops its job: with a full
\* job queue the call blocks until a slot frees, every call that returned
\* has enqueued its job, and the job queue never holds more than bufferSize
\* jobs.
C27_SubmitBlocksNeverDrops ==
    /\ Len(jobQueue) <= bufferSize
    /\ ~quitClosed =>
          /\ rejected = {}
          /\ submitted = 0 .. nextJob - 1
          /\ (pc = "submit" /\ Len(jobQueue) = bufferSize) => ~ENABLED SubmitJob

\* the third SubmitJob call is blocked on a full job queue, the pool not
\* shutting down
C27_Witness ==
    /\ pc = "submit" /\ ~quitClosed
    /\ nextJob = 2 /\ submitted = {0, 1}
    /\ Len(jobQueue) = bufferSize
    /\ ~ENABLED SubmitJob
\* C28: in the pool that owns a row-job queue, one call of Stop closes each
\* of quit, job queue, row-job queue and result queue exactly once, the
\* result queue only after every worker has exited, and Stop completes
\* without panicking.
C28_StopClosesEachChannelOnce ==
    /\ spc # "none" =>
          /\ panicked = "none"
          /\ \A c \in PoolChannels : closeCalls[c] <= 1
          /\ closeCalls["resultQueue"] > 0 => RowPoolWaitGroupZero
          /\ spc = "stopped" => \A c \in PoolChannels : closeCalls[c] = 1
\* C29: for every job that completes successfully, the result's
\* Metadata.ProcessedSize equals the size of the saved output file.
C29_ProcessedSizeIsOutputSize ==
    (ipc = "ret" /\ resultErr = "nil") => processedSize = outputSize
\* C30: every row task of an image terminates: its one send on rowResults
\* never blocks (the capacity is the image height), also after the collector
\* has returned on the first row error, and rowResults is closed once, by
\* the closer, after all row tasks have sent.
C30_RowTasksNeverBlock ==
    /\ \A r \in DOMAIN rowpc : rowpc[r] = "run" => ENABLED RowTask(r)
    /\ (closerpc = "wait" /\ \A r \in DOMAIN rowpc : rowpc[r] = "done")
          => ENABLED RowCloser
    /\ rowResultsClosed =>
          /\ closerpc = "done"
          /\ \A r \in DOMAIN rowpc : rowpc[r] = "done" /\ reported[r] # "none"
    /\ Len(rowResults) <= height

\* the collector has returned on the error of one row while the other row
\* task has not sent yet, and that task can send
C30_Witness ==
    /\ ipc = "ret" /\ resultErr = "row"
    /\ height = 2
    /\ \E r \in DOMAIN rowpc :
          /\ rowpc[r] = "run"
          /\ ENABLED RowTask(r)
          /\ \E q \in DOMAIN rowpc : q # r /\ reported[q] = "err"
\* C31: distinct input paths of one batch, as found by the recursive file
\* discovery, get distinct output paths: no two jobs of a batch write the
\* same output file.
C31_DistinctOutputPaths ==
    \A i, j \in DOMAIN jobs :
        jobs[i].InputPath # jobs[j].InputPath =>
            jobs[i].OutputPath # jobs[j].OutputPath
\* C32: ProcessImages can be called a second time on the same Processor
\* after a first call has returned: the second call does not panic, and
\* when it returns without cancellation it has one result per input path,
\* each the result of a job of that call.
C32_SecondCallWorks ==
    calls >= 2 =>
        /\ panicked = "none"
        /\ (pc = "returned" /\ err = "nil") =>
              /\ Len(results) = expectedResults
              /\ \A i \in DOMAIN results : results[i] # ZeroResult
====
